---- MODULE Spec2Model ----
(***************************************************************************)
(* Model of the slide / OCR pipeline of pptx_processing.py.                *)
(*                                                                         *)
(* Texts are sequences of tokens (a token is one character or one fixed    *)
(* literal such as "[Image:"), so that strip(), join() and count() are     *)
(* computed rather than assumed.  A confidence c in [0,1] is represented   *)
(* by the integer 100*c.                                                   *)
(***************************************************************************)
EXTENDS Integers, Sequences, FiniteSets, TLC

VARIABLES
    PPTX_AVAILABLE,     \* module global, set by the import of python-pptx
    LLM_OCR_AVAILABLE,  \* module global, set by the import of llm_ocr
    pc,                 \* position of the call under way
    clients_created,    \* number of create_http_client() calls so far
    ocr_calls,          \* recognition-service invocations so far, in order
    images,             \* the images of a batch / returned by extract_images_from_slide
    http_client,        \* the http_client argument / local
    texts,              \* ocr_images_with_llm: the returned list
    slide,              \* extract_slide_content: the slide argument
    ocr_images,         \* the ocr_images argument
    content,            \* extract_slide_content: the returned SlideContent
    slide_error,        \* extract_slide_content: the except branch was taken
    locals,             \* extract_slide_content: its locals when it returned
    file,               \* the file at file_path: [is_file, opens, slides]
    call,               \* the public function called and its arguments
    proc,               \* process_pptx_with_ocr: its locals
    ext,                \* extract_text_from_pptx: its arguments and locals
    result,             \* what the public function returned or raised
    table_arg,          \* extract_text_from_table: the table argument
    table_result        \* extract_text_from_table: the returned text

vars == <<PPTX_AVAILABLE, LLM_OCR_AVAILABLE, pc, clients_created, ocr_calls,
          images, http_client, texts, slide, ocr_images, content, slide_error,
          locals, file, call, proc, ext, result, table_arg, table_result>>

globalVars == <<PPTX_AVAILABLE, LLM_OCR_AVAILABLE>>

docVars == <<file, call, proc, ext, result>>

tableVars == <<table_arg, table_result>>

-----------------------------------------------------------------------------
(* Bounds of the model *)

MaxBatch == 3

MaxShapes == 3

MaxSlides == 3

MaxRows == 2

MaxCols == 2

-----------------------------------------------------------------------------
(* Python str / list helpers *)

SeqsUpTo(S, n) == UNION {[1..k -> S] : k \in 0..n}

IsSpace(c) == c \in {" ", "\n", "\t"}

RECURSIVE LStrip(_)
LStrip(s) == IF s # <<>> /\ IsSpace(Head(s)) THEN LStrip(Tail(s)) ELSE s

RECURSIVE RStrip(_)
RStrip(s) ==
    IF s # <<>> /\ IsSpace(s[Len(s)]) THEN RStrip(SubSeq(s, 1, Len(s) - 1)) ELSE s

\* str.strip()
Strip(s) == RStrip(LStrip(s))

\* sep.join(parts), parts a list of texts
RECURSIVE Join(_, _)
Join(sep, parts) ==
    IF parts = <<>> THEN <<>>
    ELSE IF Len(parts) = 1 THEN parts[1]
    ELSE parts[1] \o sep \o Join(sep, Tail(parts))

-----------------------------------------------------------------------------
(* The HTTP client *)

None == "None"

\* a client the caller built and passes in
CallerClient == "caller_client"

\* the client returned by the n-th call of create_http_client()
create_http_client(n) == "client_" \o ToString(n)

-----------------------------------------------------------------------------
(* The vision recognition service, llm_ocr.ocr_image_with_llm: for each    *)
(* image payload either an exception or (text, confidence).                *)

Blobs == 1..5

ocr_image_with_llm(image_bytes) ==
    CASE image_bytes = 1 -> [raises |-> FALSE, text |-> <<"a">>, confidence |-> 31]
      [] image_bytes = 2 -> [raises |-> FALSE, text |-> <<"b">>, confidence |-> 30]
      [] image_bytes = 3 -> [raises |-> FALSE, text |-> <<"c", " ", "d">>, confidence |-> 90]
      [] image_bytes = 4 -> [raises |-> FALSE, text |-> <<>>, confidence |-> 90]
      [] OTHER           -> [raises |-> TRUE, text |-> <<>>, confidence |-> 0]

-----------------------------------------------------------------------------
(* ocr_images_with_llm *)

\* 0.3, as a percentage
ConfThreshold == 30

AcceptAtThreshold(text, confidence) == text # <<>> /\ confidence >= ConfThreshold

\* line 286: if text and confidence > 0.3
Accepted(text, confidence) == text # <<>> /\ confidence > ConfThreshold

\* One iteration of the loop of lines 272-296 on image img with the client
\* in use; acc = [texts, calls, aborted].
OcrIterationAbortOnError(acc, img, client) ==
    LET r == ocr_image_with_llm(img.image_bytes)
        called == Append(acc.calls, [image_bytes |-> img.image_bytes,
                                     http_client |-> client])
    IN  IF acc.aborted THEN acc
        ELSE IF r.raises THEN [acc EXCEPT !.calls = called, !.aborted = TRUE]
        ELSE IF Accepted(r.text, r.confidence)
             THEN [acc EXCEPT !.calls = called, !.texts = Append(acc.texts, r.text)]
             ELSE [acc EXCEPT !.calls = called]

OcrIterationRetryOnError(acc, img, client) ==
    LET r == ocr_image_with_llm(img.image_bytes)
        called == Append(acc.calls, [image_bytes |-> img.image_bytes,
                                     http_client |-> client])
    IN  IF r.raises
        THEN [acc EXCEPT !.calls = Append(called, [image_bytes |-> img.image_bytes,
                                                   http_client |-> client])]
        ELSE IF Accepted(r.text, r.confidence)
             THEN [acc EXCEPT !.calls = called, !.texts = Append(acc.texts, r.text)]
             ELSE [acc EXCEPT !.calls = called]

OcrIteration(acc, img, client) ==
    LET r == ocr_image_with_llm(img.image_bytes)
        called == Append(acc.calls, [image_bytes |-> img.image_bytes,
                                     http_client |-> client])
    IN  IF r.raises
        THEN \* except Exception: logged, next image
             [acc EXCEPT !.calls = called]
        ELSE IF Accepted(r.text, r.confidence)
             THEN [acc EXCEPT !.calls = called, !.texts = Append(acc.texts, r.text)]
             ELSE [acc EXCEPT !.calls = called]

RECURSIVE OcrLoop(_, _, _)
OcrLoop(acc, imgs, client) ==
    IF imgs = <<>> THEN acc
    ELSE OcrLoop(OcrIteration(acc, Head(imgs), client), Tail(imgs), client)

OcrEarlyReturnOnEmptyOnly(imgs, available) == imgs = <<>>

\* lines 249-256: the two early returns
OcrEarlyReturn(imgs, available) == ~available \/ imgs = <<>>

ocr_images_with_llm_own_client(imgs, client, available, created) ==
    IF OcrEarlyReturn(imgs, available)
    THEN [texts |-> <<>>, created |-> created, calls |-> <<>>]
    ELSE LET acc == OcrLoop([texts |-> <<>>, calls |-> <<>>, aborted |-> FALSE],
                            imgs, create_http_client(created + 1))
         IN  [texts |-> acc.texts, created |-> created + 1, calls |-> acc.calls]

\* The whole function.  created is the number of clients constructed before
\* the call; the result holds the returned texts, the count of clients
\* constructed after it and the recognition calls it made.
ocr_images_with_llm(imgs, client, available, created) ==
    IF OcrEarlyReturn(imgs, available)
    THEN [texts |-> <<>>, created |-> created, calls |-> <<>>]
    ELSE LET new == (client = None)
             used == IF new THEN create_http_client(created + 1) ELSE client
             acc == OcrLoop([texts |-> <<>>, calls |-> <<>>, aborted |-> FALSE],
                            imgs, used)
         IN  [texts |-> acc.texts,
              created |-> IF new THEN created + 1 ELSE created,
              calls |-> acc.calls]

-----------------------------------------------------------------------------
(* Shapes and slides, as python-pptx presents them.  A shape is a record   *)
(*   shape_type        "PICTURE", "GROUP", "TEXT_BOX", "PLACEHOLDER",      *)
(*                     "TABLE" or "AUTO_SHAPE"                             *)
(*   shape_type_raises reading shape.shape_type raises                     *)
(*   has_text_frame, is_placeholder, has_table                             *)
(*   placeholder_format [raises, type]                                     *)
(*   paragraphs        the text frame: one text (its runs, concatenated)   *)
(*                     per paragraph                                       *)
(*   table             rows of cell texts                                  *)
(*   shapes            the children of a group                             *)
(*   image             [raises, blob, content_type]                        *)
(* and a slide is [shapes, has_notes_slide, notes].                        *)

NoImage == [raises |-> TRUE, blob |-> 0, content_type |-> ""]

NoPlaceholder == [raises |-> TRUE, type |-> 0]

\* shape.text: the paragraphs joined by newline
ShapeText(shape) == Join(<<"\n">>, shape.paragraphs)

\* lines 114-120 and 366-372: the stripped text of every paragraph that is
\* not blank
RECURSIVE ParagraphTexts(_)
ParagraphTexts(paragraphs) ==
    IF paragraphs = <<>> THEN <<>>
    ELSE LET para_text == Head(paragraphs)
         IN  IF Strip(para_text) # <<>>
             THEN <<Strip(para_text)>> \o ParagraphTexts(Tail(paragraphs))
             ELSE ParagraphTexts(Tail(paragraphs))

StripCellsDroppingEmpty(row) ==
    SelectSeq([c \in 1..Len(row) |-> Strip(row[c])], LAMBDA t : t # <<>>)

\* lines 151-159: the stripped cell texts of a row
StripCells(row) == [c \in 1..Len(row) |-> Strip(row[c])]

\* line 161: any(cells_text)
AnyCell(cells_text) == \E c \in 1..Len(cells_text) : cells_text[c] # <<>>

RECURSIVE TableRows(_)
TableRows(rows) ==
    IF rows = <<>> THEN <<>>
    ELSE LET cells_text == StripCells(Head(rows))
         IN  IF AnyCell(cells_text)
             THEN <<Join(<<" | ">>, cells_text)>> \o TableRows(Tail(rows))
             ELSE TableRows(Tail(rows))

extract_text_from_table(table) == Join(<<"\n">>, TableRows(table))

RECURSIVE extract_text_from_shape(_)
RECURSIVE SubShapeTexts(_)
\* lines 130-133: the non-empty texts of the children of a group
SubShapeTexts(shapes) ==
    IF shapes = <<>> THEN <<>>
    ELSE LET sub_text == extract_text_from_shape(Head(shapes))
         IN  IF sub_text # <<>>
             THEN <<sub_text>> \o SubShapeTexts(Tail(shapes))
             ELSE SubShapeTexts(Tail(shapes))

extract_text_from_shape(shape) ==
    LET frame == IF shape.has_text_frame THEN ParagraphTexts(shape.paragraphs)
                 ELSE <<>>
        table_text == IF shape.has_table THEN extract_text_from_table(shape.table)
                      ELSE <<>>
        tab == IF table_text # <<>> THEN <<table_text>> ELSE <<>>
        group == IF shape.shape_type_raises
                 THEN <<>>   \* except Exception: what was collected is kept
                 ELSE IF shape.shape_type = "GROUP" THEN SubShapeTexts(shape.shapes)
                 ELSE <<>>
    IN  Join(<<"\n">>, frame \o tab \o group)

\* lines 187-198
FormatOf(content_type) ==
    CASE content_type = "image/png"  -> "png"
      [] content_type = "image/jpeg" -> "jpeg"
      [] content_type = "image/jpg"  -> "jpeg"
      [] content_type = "image/gif"  -> "gif"
      [] content_type = "image/bmp"  -> "bmp"
      [] content_type = "image/tiff" -> "tiff"
      [] OTHER -> "png"

\* lines 207-213: the pictures among the children of a group
RECURSIVE GroupImages(_)
GroupImages(shapes) ==
    IF shapes = <<>> THEN <<>>
    ELSE LET sub_shape == Head(shapes)
         IN  IF sub_shape.shape_type = "PICTURE" /\ ~sub_shape.image.raises
             THEN <<[image_bytes |-> sub_shape.image.blob, fmt |-> "png"]>>
                  \o GroupImages(Tail(shapes))
             ELSE GroupImages(Tail(shapes))

\* lines 180-216
RECURSIVE extract_images_from_slide(_)
extract_images_from_slide(shapes) ==
    IF shapes = <<>> THEN <<>>
    ELSE LET shape == Head(shapes)
         IN  IF shape.shape_type_raises
             THEN <<>>   \* outer except: the images found so far are returned
             ELSE IF shape.shape_type = "PICTURE"
             THEN (IF shape.image.raises THEN <<>>
                   ELSE <<[image_bytes |-> shape.image.blob,
                           fmt |-> FormatOf(shape.image.content_type)]>>)
                  \o extract_images_from_slide(Tail(shapes))
             ELSE IF shape.shape_type = "GROUP"
             THEN GroupImages(shape.shapes) \o extract_images_from_slide(Tail(shapes))
             ELSE extract_images_from_slide(Tail(shapes))

-----------------------------------------------------------------------------
(* extract_slide_content *)

\* line 347: placeholder_type in (1, 2, 3)
IsTitleType(placeholder_type) == placeholder_type \in {1, 2, 3}

SetsTitleOverwriting(title, shape) ==
    /\ shape.has_text_frame
    /\ shape.is_placeholder
    /\ ~shape.placeholder_format.raises
    /\ IsTitleType(shape.placeholder_format.type)
    /\ Strip(ShapeText(shape)) # <<>>

\* lines 343-352: the shape sets the title (and the loop continues with the
\* next shape).  An exception of placeholder_format is swallowed.
SetsTitle(title, shape) ==
    /\ shape.has_text_frame
    /\ shape.is_placeholder
    /\ ~shape.placeholder_format.raises
    /\ IsTitleType(shape.placeholder_format.type)
    /\ Strip(ShapeText(shape)) # <<>>
    /\ title = <<>>

\* line 355: a top-level shape counted as an image
TopLevelPicture(shape) == shape.shape_type = "PICTURE"

GroupPictureNotCounted(sub_shape) == FALSE

\* line 380: a child of a group counted as an image
GroupPicture(sub_shape) == sub_shape.shape_type = "PICTURE"

\* lines 376-381: the children of a group; n is the position of the group
RECURSIVE TraverseGroup(_, _, _)
TraverseGroup(st, shapes, n) ==
    IF shapes = <<>> THEN st
    ELSE LET sub_shape == Head(shapes)
             sub_text == extract_text_from_shape(sub_shape)
             st1 == IF sub_text # <<>>
                    THEN [st EXCEPT !.body_texts = Append(@, sub_text),
                                    !.body_from = Append(@, n)]
                    ELSE st
             st2 == IF GroupPicture(sub_shape)
                    THEN [st1 EXCEPT !.image_count = @ + 1]
                    ELSE st1
         IN  TraverseGroup(st2, Tail(shapes), n)

\* lines 358-381: table, text frame or group
ShapeBody(st, shape, n) ==
    IF shape.has_table
    THEN LET table_text == extract_text_from_table(shape.table)
         IN  IF table_text # <<>>
             THEN [st EXCEPT !.table_texts = Append(@, table_text)]
             ELSE st
    ELSE IF shape.has_text_frame
    THEN LET paras == ParagraphTexts(shape.paragraphs)
         IN  [st EXCEPT !.body_texts = @ \o paras,
                        !.body_from = @ \o [k \in 1..Len(paras) |-> n]]
    ELSE IF shape.shape_type = "GROUP"
    THEN TraverseGroup(st, shape.shapes, n)
    ELSE st

\* lines 340-381: one iteration of the loop over slide.shapes.  st holds the
\* locals (and content.title); title_from and body_from record the position
\* of the shape that gave the title and each entry of body_texts; raised is
\* set when an exception leaves the loop.
TraverseShape(st, shape) ==
    LET n == st.shape_count + 1
        st1 == [st EXCEPT !.shape_count = n]
    IN  IF SetsTitle(st.title, shape)
        THEN [st1 EXCEPT !.title = Strip(ShapeText(shape)), !.title_from = n]
        ELSE IF shape.shape_type_raises
        THEN [st1 EXCEPT !.raised = TRUE]
        ELSE ShapeBody(IF TopLevelPicture(shape)
                       THEN [st1 EXCEPT !.image_count = @ + 1] ELSE st1,
                       shape, n)

\* lines 328-336
TraverseStart ==
    [title |-> <<>>, image_count |-> 0, shape_count |-> 0,
     body_texts |-> <<>>, table_texts |-> <<>>,
     title_from |-> 0, body_from |-> <<>>, raised |-> FALSE]

RECURSIVE Traverse(_, _)
Traverse(st, shapes) ==
    IF shapes = <<>> \/ st.raised THEN st
    ELSE Traverse(TraverseShape(st, Head(shapes)), Tail(shapes))

\* lines 384-389
NotesOf(sl) ==
    IF sl.has_notes_slide /\ Strip(sl.notes) # <<>> THEN Strip(sl.notes) ELSE <<>>

\* The SlideContent returned: line 328 and 349 always, lines 389-395 and 408
\* only when no exception left the try block before them.
Assemble(slide_number, st, notes, image_texts) ==
    IF st.raised
    THEN [slide_number |-> slide_number, title |-> st.title, body_text |-> <<>>,
          notes |-> <<>>, table_text |-> <<>>, image_texts |-> <<>>,
          shape_count |-> 0, image_count |-> 0]
    ELSE [slide_number |-> slide_number,
          title |-> st.title,
          body_text |-> Join(<<"\n">>, st.body_texts),
          notes |-> notes,
          table_text |-> Join(<<"\n">>, st.table_texts),
          image_texts |-> image_texts,
          shape_count |-> st.shape_count,
          image_count |-> st.image_count]

\* line 398: if ocr_images and image_count > 0 (reached only without exception)
OcrWanted(ocr, st) == ocr /\ ~st.raised /\ st.image_count > 0

\* The whole function.  The result holds the SlideContent, the images that
\* extract_images_from_slide returned (none when it was not called), the
\* locals at the end of the traversal, whether the except branch of line 414
\* was taken, and the clients constructed and recognition calls made.
extract_slide_content(sl, slide_number, ocr, client, available, created) ==
    LET st == Traverse(TraverseStart, sl.shapes)
        imgs == IF OcrWanted(ocr, st) THEN extract_images_from_slide(sl.shapes)
                ELSE <<>>
        r == IF imgs # <<>>
             THEN ocr_images_with_llm(imgs, client, available, created)
             ELSE [texts |-> <<>>, created |-> created, calls |-> <<>>]
    IN  [content |-> Assemble(slide_number, st, NotesOf(sl), r.texts),
         images |-> imgs,
         locals |-> st,
         error |-> st.raised,
         created |-> r.created,
         calls |-> r.calls]

-----------------------------------------------------------------------------
(* extract_text_from_pptx and process_pptx_with_ocr *)

\* lines 534-551: the parts of the text of slide i
SlideParts(c, i, include_notes, include_tables) ==
    << <<"--- Slide ", ToString(i), " ---">> >>
    \o (IF c.title # <<>> THEN << <<"# ">> \o c.title >> ELSE <<>>)
    \o (IF c.body_text # <<>> THEN <<c.body_text>> ELSE <<>>)
    \o (IF include_tables /\ c.table_text # <<>> THEN <<c.table_text>> ELSE <<>>)
    \o (IF include_notes /\ c.notes # <<>>
        THEN << <<"[Notes: ">> \o c.notes \o <<"]">> >> ELSE <<>>)
    \o [k \in 1..Len(c.image_texts) |->
            <<"[Image:", " ">> \o c.image_texts[k] \o <<"]">>]

\* str.count(token)
CountToken(text, token) == Cardinality({k \in 1..Len(text) : text[k] = token})

\* line 641-644: the top-level pictures of the document
RECURSIVE CountTopLevelPictures(_)
CountTopLevelPictures(shapes) ==
    IF shapes = <<>> THEN 0
    ELSE (IF Head(shapes).shape_type = "PICTURE" THEN 1 ELSE 0)
         + CountTopLevelPictures(Tail(shapes))

RECURSIVE PrePass(_)
PrePass(slides) ==
    IF slides = <<>> THEN 0
    ELSE CountTopLevelPictures(Head(slides).shapes) + PrePass(Tail(slides))

ManyImagesAtLeast(total_images, total_slides) == total_images >= total_slides * 2

\* line 648: more than 2 images per slide on average
ManyImages(total_images, total_slides) == total_images > total_slides * 2

NoProc == [total_slides |-> 0, total_images |-> 0, should_ocr |-> FALSE]

NoExt ==
    [ocr_images |-> FALSE, include_notes |-> FALSE, include_tables |-> FALSE,
     i |-> 0, all_texts |-> <<>>, total_images |-> 0, images_with_text |-> 0,
     text |-> <<>>]

NoResult == [kind |-> "none", exception |-> "", value |-> <<>>]

Raised(exception) == [kind |-> "raised", exception |-> exception, value |-> <<>>]

Returned(value) == [kind |-> "returned", exception |-> "", value |-> value]

NoFile == [is_file |-> FALSE, opens |-> FALSE, slides |-> <<>>]

NoCall ==
    [fn |-> "", ocr_images |-> FALSE, include_notes |-> FALSE,
     include_tables |-> FALSE, force_ocr |-> FALSE]

\* the variables of a document call, in the specifications of the inner
\* functions
NoDocument ==
    /\ file = NoFile
    /\ call = NoCall
    /\ proc = NoProc
    /\ ext = NoExt
    /\ result = NoResult

\* Presentation(file_path) raises
OpenFails == ~file.is_file \/ ~file.opens

ExtractEntryErrorFileFirst ==
    IF ~file.is_file THEN "FileNotFoundError"
    ELSE IF ~PPTX_AVAILABLE THEN "RuntimeError"
    ELSE IF OpenFails THEN "RuntimeError from"
    ELSE ""

\* lines 489-505: the exception extract_text_from_pptx raises before it
\* processes anything ("RuntimeError from": the RuntimeError of line 505,
\* whose message holds the cause), "" when there is none
ExtractEntryError ==
    IF ~PPTX_AVAILABLE THEN "RuntimeError"
    ELSE IF ~file.is_file THEN "FileNotFoundError"
    ELSE IF OpenFails THEN "RuntimeError from"
    ELSE ""

\* lines 487-522 of extract_text_from_pptx, entered with the arguments a
EnterExtract(a) ==
    /\ ext' = [NoExt EXCEPT !.ocr_images = a.ocr_images,
                            !.include_notes = a.include_notes,
                            !.include_tables = a.include_tables]
    /\ IF ExtractEntryError # ""
       THEN /\ result' = Raised(ExtractEntryError)
            /\ pc' = "done"
            /\ UNCHANGED <<http_client, clients_created>>
       ELSE /\ result' = result
            /\ pc' = "slides"
            /\ IF a.ocr_images /\ LLM_OCR_AVAILABLE
               THEN /\ http_client' = create_http_client(clients_created + 1)
                    /\ clients_created' = clients_created + 1
               ELSE /\ http_client' = None
                    /\ UNCHANGED clients_created

\* extract_text_from_pptx called by the user
ExtractTextFromPptx ==
    /\ pc = "call"
    /\ call.fn = "extract_text_from_pptx"
    /\ EnterExtract(call)
    /\ UNCHANGED <<globalVars, tableVars, ocr_calls, images, texts, slide, ocr_images, content,
                   slide_error, locals, file, call, proc>>

\* lines 524-558: one iteration of the loop over prs.slides
ExtractSlide ==
    /\ pc = "slides"
    /\ ext.i < Len(file.slides)
    /\ LET i == ext.i + 1
           r == extract_slide_content(file.slides[i], i, ext.ocr_images, http_client,
                                      LLM_OCR_AVAILABLE, clients_created)
           parts == SlideParts(r.content, i, ext.include_notes, ext.include_tables)
           slide_text == Join(<<"\n">>, parts)
       IN  /\ ext' = [ext EXCEPT
                        !.i = i,
                        !.all_texts = IF Strip(slide_text) # <<>>
                                      THEN Append(@, slide_text) ELSE @,
                        !.total_images = @ + r.content.image_count,
                        !.images_with_text = @ + Len(r.content.image_texts)]
           /\ content' = r.content
           /\ images' = images \o r.images
           /\ slide_error' = r.error
           /\ clients_created' = r.created
           /\ ocr_calls' = ocr_calls \o r.calls
    /\ UNCHANGED <<globalVars, tableVars, pc, http_client, texts, slide, ocr_images,
                   locals, file, call, proc, result>>

\* lines 560-574, and for process_pptx_with_ocr the return to line 661
ExtractReturn ==
    /\ pc = "slides"
    /\ ext.i = Len(file.slides)
    /\ LET text == Join(<<"\n", "\n">>, ext.all_texts)
       IN  /\ ext' = [ext EXCEPT !.text = text]
           /\ IF call.fn = "extract_text_from_pptx"
              THEN /\ result' = Returned(text)
                   /\ pc' = "done"
              ELSE /\ result' = result
                   /\ pc' = "process_resumes"
    /\ UNCHANGED <<globalVars, tableVars, clients_created, ocr_calls, images, http_client,
                   texts, slide, ocr_images, content, slide_error, locals, file,
                   call, proc>>

\* lines 606-659 of process_pptx_with_ocr: up to and into the call of
\* extract_text_from_pptx
ProcessPptxWithOcr ==
    /\ pc = "call"
    /\ call.fn = "process_pptx_with_ocr"
    /\ IF ~PPTX_AVAILABLE
       THEN /\ result' = Returned([text |-> <<>>,
                                   error |-> "python-pptx non installe",
                                   method |-> "error"])
            /\ pc' = "done"
            /\ UNCHANGED <<proc, ext, http_client, clients_created>>
       ELSE IF OpenFails
       THEN /\ result' = Returned([text |-> <<>>,
                                   error |-> "Impossible d'ouvrir",
                                   method |-> "error"])
            /\ pc' = "done"
            /\ UNCHANGED <<proc, ext, http_client, clients_created>>
       ELSE LET total_slides == Len(file.slides)
                total_images == IF call.force_ocr THEN 0 ELSE PrePass(file.slides)
                should_ocr == IF call.force_ocr THEN TRUE
                              ELSE IF ManyImages(total_images, total_slides)
                                   THEN LLM_OCR_AVAILABLE
                                   ELSE FALSE
            IN  /\ proc' = [total_slides |-> total_slides,
                            total_images |-> total_images,
                            should_ocr |-> should_ocr]
                /\ EnterExtract([ocr_images |-> should_ocr,
                                 include_notes |-> TRUE,
                                 include_tables |-> TRUE])
    /\ UNCHANGED <<globalVars, tableVars, ocr_calls, images, texts, slide, ocr_images, content,
                   slide_error, locals, file, call>>

\* lines 661-685
ProcessReturn ==
    /\ pc = "process_resumes"
    /\ LET ocr_used == proc.should_ocr
           images_ocr == IF proc.should_ocr THEN CountToken(ext.text, "[Image:")
                         ELSE 0
       IN  result' = Returned([text |-> ext.text,
                               method |-> IF ocr_used THEN "ocr" ELSE "classic",
                               slides_count |-> proc.total_slides,
                               images_count |-> proc.total_images,
                               images_ocr |-> images_ocr,
                               ocr_used |-> ocr_used,
                               processing_time |-> "elapsed"])
    /\ pc' = "done"
    /\ UNCHANGED <<globalVars, tableVars, clients_created, ocr_calls, images, http_client,
                   texts, slide, ocr_images, content, slide_error, locals, file,
                   call, proc, ext>>

-----------------------------------------------------------------------------
(* The variables of a table call, outside such a call *)

NoTable ==
    /\ table_arg = <<>>
    /\ table_result = <<>>

-----------------------------------------------------------------------------
(* Specification of one call of ocr_images_with_llm *)

Formats == {"png", "jpeg"}

ImageSet == [image_bytes : Blobs, fmt : Formats]

NoSlide == [shapes |-> <<>>, has_notes_slide |-> FALSE, notes |-> <<>>]

NoContent == Assemble(0, TraverseStart, <<>>, <<>>)

InitOcr ==
    /\ PPTX_AVAILABLE \in BOOLEAN
    /\ LLM_OCR_AVAILABLE \in BOOLEAN
    /\ pc = "ocr_call"
    /\ clients_created = 0
    /\ ocr_calls = <<>>
    /\ images \in SeqsUpTo(ImageSet, MaxBatch)
    /\ http_client \in {None, CallerClient}
    /\ texts = <<>>
    /\ slide = NoSlide
    /\ ocr_images = FALSE
    /\ content = NoContent
    /\ slide_error = FALSE
    /\ locals = TraverseStart
    /\ NoDocument
    /\ NoTable

CallOcrImagesWithLlm ==
    /\ pc = "ocr_call"
    /\ LET r == ocr_images_with_llm(images, http_client, LLM_OCR_AVAILABLE,
                                    clients_created)
       IN  /\ texts' = r.texts
           /\ clients_created' = r.created
           /\ ocr_calls' = ocr_calls \o r.calls
    /\ pc' = "ocr_returned"
    /\ UNCHANGED <<globalVars, tableVars, images, http_client, slide, ocr_images, content,
                   slide_error, locals, docVars>>

NextOcr == CallOcrImagesWithLlm

SpecOcr == InitOcr /\ [][NextOcr]_vars

-----------------------------------------------------------------------------
(* Specification of one call of extract_text_from_table *)

\* the text of a cell: its runs, concatenated
CellSet == { <<>>, <<" ">>, <<"a">>, <<" ", "b", " ">> }

\* the tables of at most r rows and c columns
Tables(r, c) == UNION { [1..i -> [1..j -> CellSet]] : i \in 0..r, j \in 1..c }

InitTable ==
    /\ PPTX_AVAILABLE = TRUE
    /\ LLM_OCR_AVAILABLE = FALSE
    /\ pc = "table_call"
    /\ clients_created = 0
    /\ ocr_calls = <<>>
    /\ images = <<>>
    /\ http_client = None
    /\ texts = <<>>
    /\ slide = NoSlide
    /\ ocr_images = FALSE
    /\ content = NoContent
    /\ slide_error = FALSE
    /\ locals = TraverseStart
    /\ NoDocument
    /\ table_arg \in Tables(MaxRows, MaxCols)
    /\ table_result = <<>>

CallExtractTextFromTable ==
    /\ pc = "table_call"
    /\ table_result' = extract_text_from_table(table_arg)
    /\ pc' = "table_returned"
    /\ UNCHANGED <<globalVars, clients_created, ocr_calls, images, http_client,
                   texts, slide, ocr_images, content, slide_error, locals, docVars,
                   table_arg>>

NextTable == CallExtractTextFromTable

SpecTable == InitTable /\ [][NextTable]_vars

-----------------------------------------------------------------------------
(* The shapes the slides of the model are made of *)

Shape == 
    [shape_type |-> "AUTO_SHAPE", shape_type_raises |-> FALSE,
     has_text_frame |-> FALSE, is_placeholder |-> FALSE, has_table |-> FALSE,
     placeholder_format |-> NoPlaceholder, paragraphs |-> <<>>, table |-> <<>>,
     shapes |-> <<>>, image |-> NoImage]

Placeholder(type, paragraphs) ==
    [Shape EXCEPT !.shape_type = "PLACEHOLDER", !.has_text_frame = TRUE,
                  !.is_placeholder = TRUE,
                  !.placeholder_format = [raises |-> FALSE, type |-> type],
                  !.paragraphs = paragraphs]

TextBox(paragraphs) ==
    [Shape EXCEPT !.shape_type = "TEXT_BOX", !.has_text_frame = TRUE,
                  !.paragraphs = paragraphs]

Picture(blob, content_type) ==
    [Shape EXCEPT !.shape_type = "PICTURE",
                  !.image = [raises |-> FALSE, blob |-> blob,
                             content_type |-> content_type]]

\* a picture whose image part cannot be read
UnreadablePicture == [Shape EXCEPT !.shape_type = "PICTURE"]

Table(rows) == [Shape EXCEPT !.shape_type = "TABLE", !.has_table = TRUE, !.table = rows]

Group(shapes) == [Shape EXCEPT !.shape_type = "GROUP", !.shapes = shapes]

\* a shape whose shape_type cannot be read
BrokenShape == [Shape EXCEPT !.shape_type_raises = TRUE]

ShapeSet ==
    { Placeholder(1, << <<" ", "T", " ">> >>),
      Placeholder(3, << <<" ">> >>),
      Placeholder(2, << <<"U">>, <<"V">> >>),
      Placeholder(7, << <<"p">> >>),
      TextBox(<< <<"B">>, <<" ">>, <<"C", " ">> >>),
      Picture(1, "image/jpeg"),
      Picture(2, "image/png"),
      UnreadablePicture,
      Table(<< <<<<"a">>, <<>>>>, <<<<" ">>, <<>>>>, <<<<"b">>, <<"c">>>> >>),
      Group(<<Picture(3, "image/gif"), TextBox(<< <<"g">> >>)>>),
      Group(<<UnreadablePicture, Group(<<TextBox(<< <<"h">> >>)>>)>>),
      BrokenShape }

NotesSet ==
    { [has_notes_slide |-> FALSE, notes |-> <<>>],
      [has_notes_slide |-> TRUE, notes |-> <<" ", "N", "\n">>] }

Slides(n) ==
    { [shapes |-> sh, has_notes_slide |-> nt.has_notes_slide, notes |-> nt.notes] :
        sh \in SeqsUpTo(ShapeSet, n), nt \in NotesSet }

-----------------------------------------------------------------------------
(* Specification of one call of extract_slide_content *)

InitSlide ==
    /\ PPTX_AVAILABLE = TRUE
    /\ LLM_OCR_AVAILABLE \in BOOLEAN
    /\ pc = "slide_call"
    /\ clients_created = 0
    /\ ocr_calls = <<>>
    /\ images = <<>>
    /\ ocr_images \in BOOLEAN
    /\ http_client \in IF ocr_images THEN {None, CallerClient} ELSE {None}
    /\ texts = <<>>
    /\ slide \in Slides(MaxShapes)
    /\ content = NoContent
    /\ slide_error = FALSE
    /\ locals = TraverseStart
    /\ NoDocument
    /\ NoTable

CallExtractSlideContent ==
    /\ pc = "slide_call"
    /\ LET r == extract_slide_content(slide, 1, ocr_images, http_client,
                                      LLM_OCR_AVAILABLE, clients_created)
       IN  /\ content' = r.content
           /\ images' = r.images
           /\ slide_error' = r.error
           /\ locals' = r.locals
           /\ clients_created' = r.created
           /\ ocr_calls' = ocr_calls \o r.calls
    /\ pc' = "slide_returned"
    /\ UNCHANGED <<globalVars, tableVars, http_client, texts, slide, ocr_images, docVars>>

NextSlide == CallExtractSlideContent

SpecSlide == InitSlide /\ [][NextSlide]_vars

-----------------------------------------------------------------------------
(* Specification of one call of a public function on a document *)

SlideOf(shapes, nt) ==
    [shapes |-> shapes, has_notes_slide |-> nt.has_notes_slide, notes |-> nt.notes]

WithNotes == [has_notes_slide |-> TRUE, notes |-> <<" ", "N", "\n">>]

WithoutNotes == [has_notes_slide |-> FALSE, notes |-> <<>>]

DocSlideSet ==
    { SlideOf(<<>>, WithoutNotes),
      SlideOf(<<Placeholder(1, << <<" ", "T", " ">> >>),
                TextBox(<< <<"B">>, <<" ">>, <<"C", " ">> >>),
                Table(<< <<<<"a">>, <<>>>>, <<<<"b">>, <<"c">>>> >>)>>, WithNotes),
      SlideOf(<<Picture(1, "image/jpeg"), Picture(2, "image/png")>>, WithoutNotes),
      SlideOf(<<Picture(3, "image/png"), Picture(1, "image/png"),
                UnreadablePicture>>, WithoutNotes),
      SlideOf(<<Group(<<Picture(3, "image/gif"), TextBox(<< <<"g">> >>)>>),
                Picture(5, "image/bmp"),
                TextBox(<< <<"[Image:", " ", "k", "]">> >>)>>, WithNotes),
      SlideOf(<<TextBox(<< <<"B">> >>), Picture(1, "image/png"), BrokenShape>>,
              WithoutNotes) }

FileSet ==
    { NoFile, [is_file |-> TRUE, opens |-> FALSE, slides |-> <<>>] }
    \cup { [is_file |-> TRUE, opens |-> TRUE, slides |-> d] :
             d \in SeqsUpTo(DocSlideSet, MaxSlides) }

CallSet ==
    { [fn |-> "extract_text_from_pptx", ocr_images |-> o, include_notes |-> n,
       include_tables |-> t, force_ocr |-> FALSE] : o, n, t \in BOOLEAN }
    \cup { [fn |-> "process_pptx_with_ocr", ocr_images |-> FALSE,
            include_notes |-> TRUE, include_tables |-> TRUE, force_ocr |-> f] :
             f \in BOOLEAN }

InitDoc ==
    /\ PPTX_AVAILABLE \in BOOLEAN
    /\ LLM_OCR_AVAILABLE \in BOOLEAN
    /\ pc = "call"
    /\ clients_created = 0
    /\ ocr_calls = <<>>
    /\ images = <<>>
    /\ http_client = None
    /\ texts = <<>>
    /\ slide = NoSlide
    /\ ocr_images = FALSE
    /\ content = NoContent
    /\ slide_error = FALSE
    /\ locals = TraverseStart
    /\ file \in FileSet
    /\ call \in CallSet
    /\ proc = NoProc
    /\ ext = NoExt
    /\ result = NoResult
    /\ NoTable

NextDoc ==
    \/ ExtractTextFromPptx
    \/ ProcessPptxWithOcr
    \/ ExtractSlide
    \/ ExtractReturn
    \/ ProcessReturn

SpecDoc == InitDoc /\ [][NextDoc]_vars

-----------------------------------------------------------------------------
(* Claims about ocr_images_with_llm *)

\* number of positions of s holding x
Occurrences(s, x) == Cardinality({i \in 1..Len(s) : s[i] = x})

BlobsOf(imgs) == [i \in 1..Len(imgs) |-> imgs[i].image_bytes]

\* C1: with the backend available, for every image whose recognition call
\* returns (text, confidence), the text is appended to the result if and only
\* if it is non-empty and confidence > 0.3 (each payload of the recognition
\* table answers a different non-empty text, so the text of payload b occurs
\* in the result as often as b occurs accepted in the batch); confidence 0.3
\* (payload 2) is excluded and 0.31 (payload 1) is included.
C1_ConfidenceThreshold ==
    (pc = "ocr_returned" /\ LLM_OCR_AVAILABLE) =>
        \A b \in Blobs :
            LET r == ocr_image_with_llm(b)
            IN  ~r.raises =>
                    Occurrences(texts, r.text) =
                        IF r.text # <<>> /\ r.confidence > 30
                        THEN Occurrences(BlobsOf(images), b)
                        ELSE 0

C1_Witness ==
    /\ pc = "ocr_returned"
    /\ LLM_OCR_AVAILABLE
    /\ Len(images) = 2
    /\ images[1].image_bytes = 2
    /\ images[2].image_bytes = 1
    /\ texts = << <<"a">> >>

\* the texts the recognition service gives for the images of a batch that
\* are to be kept, in batch order
RECURSIVE KeptTexts(_)
KeptTexts(imgs) ==
    IF imgs = <<>> THEN <<>>
    ELSE LET r == ocr_image_with_llm(Head(imgs).image_bytes)
         IN  IF ~r.raises /\ r.text # <<>> /\ r.confidence > 30
             THEN <<r.text>> \o KeptTexts(Tail(imgs))
             ELSE KeptTexts(Tail(imgs))

C3_UnavailableOrEmpty ==
    (pc = "ocr_returned" /\ (~LLM_OCR_AVAILABLE \/ images = <<>>)) =>
        /\ texts = <<>>
        /\ clients_created = 0
        /\ ocr_calls = <<>>

C3_Witness ==
    /\ pc = "ocr_returned"
    /\ ~LLM_OCR_AVAILABLE
    /\ Len(images) = MaxBatch
    /\ http_client = None
    /\ texts = <<>>

-----------------------------------------------------------------------------
(* Claims about extract_slide_content *)

\* C5: for every slide, whatever its shapes (top-level pictures, groups
\* holding pictures, title placeholders, pictures whose image cannot be read,
\* OCR skips), the returned SlideContent has len(image_texts) <= number of
\* images that extract_images_from_slide returned for the slide during the
\* call <= image_count; and whenever the traversal ended without exception,
\* image_count also bounds what extract_images_from_slide returns for the
\* slide when OCR was not requested.
C5_ImageCounts ==
    pc = "slide_returned" =>
        /\ Len(content.image_texts) <= Len(images)
        /\ Len(images) <= content.image_count
        /\ ~slide_error =>
               Len(extract_images_from_slide(slide.shapes)) <= content.image_count

C5_Witness ==
    /\ pc = "slide_returned"
    /\ ocr_images
    /\ LLM_OCR_AVAILABLE
    /\ Len(content.image_texts) = 1
    /\ Len(images) = 2
    /\ content.image_count = 3
    /\ \E i \in 1..Len(slide.shapes) : slide.shapes[i].shape_type = "GROUP"

\* a title-type placeholder: placeholder type 1, 2 or 3 with a text frame
IsTitlePlaceholder(shape) ==
    /\ shape.has_text_frame
    /\ shape.is_placeholder
    /\ ~shape.placeholder_format.raises
    /\ shape.placeholder_format.type \in {1, 2, 3}

\* the positions of the title-type placeholders of a list of shapes
TitlePositions(shapes) == {i \in 1..Len(shapes) : IsTitlePlaceholder(shapes[i])}

Min(S) == CHOOSE x \in S : \A y \in S : x <= y

\* the shapes the loop reached: all of them, or those up to the first one
\* whose processing raises
Reached(shapes) ==
    LET bad == {i \in 1..Len(shapes) : shapes[i].shape_type_raises}
    IN  IF bad = {} THEN shapes ELSE SubSeq(shapes, 1, Min(bad))

\* C6 as stated: on a slide with a title-type placeholder, title is the
\* trimmed text of the first one in traversal order (checked on the calls
\* that end without exception).
C6_FirstTitlePlaceholder ==
    (pc = "slide_returned" /\ ~slide_error /\ TitlePositions(slide.shapes) # {}) =>
        content.title = Strip(ShapeText(slide.shapes[Min(TitlePositions(slide.shapes))]))

\* C6, amended: title is the trimmed text of the first title-type placeholder
\* whose trimmed text is not empty among the shapes the traversal reached
\* (empty when there is none): a later title placeholder never overwrites it,
\* and the shape that set the title adds nothing to body_text.
C6_FirstNonEmptyTitle ==
    pc = "slide_returned" =>
        LET shapes == Reached(slide.shapes)
            named == {i \in TitlePositions(shapes) :
                          Strip(ShapeText(shapes[i])) # <<>>}
        IN  /\ named = {} => content.title = <<>> /\ locals.title_from = 0
            /\ named # {} =>
                   /\ content.title = Strip(ShapeText(shapes[Min(named)]))
                   /\ locals.title_from = Min(named)
                   /\ \A k \in 1..Len(locals.body_from) :
                          locals.body_from[k] # locals.title_from
            /\ Len(locals.body_from) = Len(locals.body_texts)
            /\ ~slide_error => content.body_text = Join(<<"\n">>, locals.body_texts)

C6_Witness ==
    /\ pc = "slide_returned"
    /\ Len(slide.shapes) = 3
    /\ IsTitlePlaceholder(slide.shapes[1])
    /\ Strip(ShapeText(slide.shapes[1])) = <<>>
    /\ IsTitlePlaceholder(slide.shapes[2])
    /\ IsTitlePlaceholder(slide.shapes[3])
    /\ content.title = <<"T">>
    /\ content.body_text = <<"U", "\n", "V">>

\* C8: extract_slide_content never raises, and when an exception occurs
\* while the k-th shape is processed the returned SlideContent holds what the
\* first k-1 shapes gave: title, body text, table text, and the shape and
\* image counts (the shape count with or without the k-th shape).
C8_PartialContentKept ==
    (pc = "slide_returned" /\ slide_error) =>
        LET k == Len(Reached(slide.shapes))
            before == [slide EXCEPT !.shapes = SubSeq(slide.shapes, 1, k - 1)]
            kept == extract_slide_content(before, 1, FALSE, None, FALSE, 0).content
        IN  /\ content.title = kept.title
            /\ content.body_text = kept.body_text
            /\ content.table_text = kept.table_text
            /\ content.image_count = kept.image_count
            /\ content.shape_count \in {k - 1, k}

-----------------------------------------------------------------------------
(* Claims about extract_text_from_pptx and process_pptx_with_ocr *)

\* the top-level picture shapes of the document, as (slide, position) pairs
DocumentPictures ==
    UNION { { <<s, k>> : k \in {j \in 1..Len(file.slides[s].shapes) :
                                    file.slides[s].shapes[j].shape_type = "PICTURE"} } :
            s \in 1..Len(file.slides) }

Succeeded ==
    /\ pc = "done"
    /\ call.fn = "process_pptx_with_ocr"
    /\ result.kind = "returned"
    /\ result.value.method # "error"

\* C4: in process_pptx_with_ocr with force_ocr false, OCR is enabled for the
\* extraction if and only if the number of top-level picture shapes over all
\* slides is strictly greater than twice the slide count and the OCR backend
\* is available; the returned ocr_used and method tell exactly that.
C4_AdaptiveOcr ==
    (Succeeded /\ ~call.force_ocr) =>
        LET enabled == /\ Cardinality(DocumentPictures) > 2 * Len(file.slides)
                       /\ LLM_OCR_AVAILABLE
        IN  /\ ext.ocr_images = enabled
            /\ result.value.ocr_used = enabled
            /\ result.value.method = IF enabled THEN "ocr" ELSE "classic"
            /\ ~enabled => ocr_calls = <<>> /\ clients_created = 0

C4_Witness ==
    /\ Succeeded
    /\ ~call.force_ocr
    /\ Len(file.slides) = 3
    /\ Cardinality(DocumentPictures) = 7
    /\ result.value.method = "ocr"
    /\ ocr_calls # <<>>

\* C7: extract_text_from_pptx raises RuntimeError when the presentation
\* backend is not installed, whatever the path; FileNotFoundError when the
\* backend is installed and the path is not a file; a RuntimeError holding
\* the cause when the document cannot be opened.  In the three cases no slide
\* is processed, no network client is constructed and no text is returned.
C7_FatalErrors ==
    (call.fn = "extract_text_from_pptx"
        /\ (~PPTX_AVAILABLE \/ ~file.is_file \/ ~file.opens)) =>
        /\ ext.i = 0
        /\ ext.all_texts = <<>>
        /\ clients_created = 0
        /\ ocr_calls = <<>>
        /\ result.kind # "returned"
        /\ pc \in {"call", "done"}
        /\ pc = "done" =>
               /\ result.kind = "raised"
               /\ ~PPTX_AVAILABLE => result.exception = "RuntimeError"
               /\ (PPTX_AVAILABLE /\ ~file.is_file) =>
                      result.exception = "FileNotFoundError"
               /\ (PPTX_AVAILABLE /\ file.is_file /\ ~file.opens) =>
                      result.exception = "RuntimeError from"

C7_Witness ==
    /\ call.fn = "extract_text_from_pptx"
    /\ pc = "done"
    /\ ~PPTX_AVAILABLE
    /\ ~file.is_file
    /\ call.ocr_images
    /\ result.exception = "RuntimeError"

\* C9: every result map that process_pptx_with_ocr returns, on success and
\* on every error path, holds all of the fields text, method, slides_count,
\* images_count, images_ocr, ocr_used, processing_time and errors, with
\* method one of 'classic', 'ocr', 'error'.
C9_ResultFields ==
    (pc = "done" /\ call.fn = "process_pptx_with_ocr" /\ result.kind = "returned") =>
        /\ {"text", "method", "slides_count", "images_count", "images_ocr",
            "ocr_used", "processing_time", "errors"} \subseteq DOMAIN result.value
        /\ result.value.method \in {"classic", "ocr", "error"}

OcrRequested ==
    \/ call.fn = "extract_text_from_pptx" /\ call.ocr_images
    \/ call.fn = "process_pptx_with_ocr" /\ call.force_ocr

C11_OneClientPerDocument ==
    LET opened == PPTX_AVAILABLE /\ file.is_file /\ file.opens /\ pc # "call"
    IN  /\ clients_created <= 1
        /\ clients_created = 1 <=> (opened /\ ext.ocr_images /\ LLM_OCR_AVAILABLE)
        /\ clients_created = 1 => http_client = "client_1"
        /\ clients_created = 0 => http_client = None
        /\ \A k \in 1..Len(ocr_calls) :
               /\ clients_created = 1
               /\ ocr_calls[k].http_client = "client_1"

C11_Witness ==
    /\ pc = "done"
    /\ call.fn = "extract_text_from_pptx"
    /\ ext.i = 3
    /\ clients_created = 1
    /\ Len(ocr_calls) >= 5
    /\ ocr_calls[1].http_client = ocr_calls[Len(ocr_calls)].http_client

\* the readable pictures of a slide: its top-level pictures and the pictures
\* that are children of its top-level groups
ReadablePictures(sl) ==
    LET readable(sh) == sh.shape_type = "PICTURE" /\ ~sh.image.raises
        tops == {j \in 1..Len(sl.shapes) : readable(sl.shapes[j])}
        subs == { <<j, k>> \in (1..Len(sl.shapes)) \X (1..MaxShapes + 1) :
                     /\ sl.shapes[j].shape_type = "GROUP"
                     /\ k <= Len(sl.shapes[j].shapes)
                     /\ readable(sl.shapes[j].shapes[k]) }
    IN  Cardinality(tops) + Cardinality(subs)

\* the readable pictures of the first n slides, the slides that hold a shape
\* whose type cannot be read left out
RECURSIVE ReadablePicturesUpTo(_)
ReadablePicturesUpTo(n) ==
    IF n = 0 THEN 0
    ELSE ReadablePicturesUpTo(n - 1)
         + (IF \A j \in 1..Len(file.slides[n].shapes) :
                   ~file.slides[n].shapes[j].shape_type_raises
            THEN ReadablePictures(file.slides[n]) ELSE 0)

\* C13: no retry on OCR.  During one call of extract_text_from_pptx with OCR
\* enabled and the backend available, the recognition routine has been invoked
\* exactly once for each image that extract_images_from_slide returned so far,
\* in slide order and then discovery order, the images whose call raised or
\* scored low included (so as many calls as the slides read so far hold
\* readable pictures); with OCR disabled it is never invoked.
C13_NoRetry ==
    /\ (pc # "call" /\ ext.ocr_images /\ LLM_OCR_AVAILABLE) =>
           /\ BlobsOf(ocr_calls) = BlobsOf(images)
           /\ Len(ocr_calls) =
                  ReadablePicturesUpTo(ext.i)
    /\ ~ext.ocr_images => ocr_calls = <<>>

C13_Witness ==
    /\ pc = "done"
    /\ call.fn = "extract_text_from_pptx"
    /\ ext.ocr_images
    /\ LLM_OCR_AVAILABLE
    /\ ext.i = 2
    /\ BlobsOf(images) = <<1, 2, 3, 5>>
    /\ BlobsOf(ocr_calls) = <<1, 2, 3, 5>>
    /\ ext.images_with_text = 2

\* C14 as stated: when OCR is used, images_ocr returned by
\* process_pptx_with_ocr equals the number of OCR texts accepted over all
\* slides (images_with_text).
C14_ImagesOcrIsAccepted ==
    (Succeeded /\ result.value.ocr_used) =>
        result.value.images_ocr = ext.images_with_text

\* C15 as stated: for every document that opens, images_count returned by
\* process_pptx_with_ocr equals the number of top-level picture shapes over
\* all slides, whether force_ocr is true or false.
C15_ImagesCountIsPictures ==
    Succeeded => result.value.images_count = Cardinality(DocumentPictures)

-----------------------------------------------------------------------------
(* Claims about extract_text_from_table *)

\* a row with at least one cell that is not blank
HasText(row) == \E c \in 1..Len(row) : Strip(row[c]) # <<>>

\* C12: extract_text_from_table returns one line per table row that has at
\* least one non-empty trimmed cell, in row order; a line is all the trimmed
\* cell texts of the row joined positionally with ' | ', empty cells kept
\* (row ['a', ''] gives 'a | '); rows whose cells are all empty are dropped,
\* and the lines are joined with newline.
C12_TableLines ==
    pc = "table_returned" =>
        LET kept == SelectSeq(table_arg, HasText)
            line(k) == Join(<<" | ">>, [c \in 1..Len(kept[k]) |-> Strip(kept[k][c])])
        IN  /\ table_result = Join(<<"\n">>, [k \in 1..Len(kept) |-> line(k)])
            /\ CountToken(table_result, "\n") = IF kept = <<>> THEN 0 ELSE Len(kept) - 1
            /\ kept # <<>> =>
                   CountToken(table_result, " | ") = Len(kept) * (Len(kept[1]) - 1)
            /\ table_arg = << << <<"a">>, <<>> >> >> => table_result = <<"a", " | ">>

C12_Witness ==
    /\ pc = "table_returned"
    /\ table_arg = << << <<" ">>, <<>> >>, << <<"a">>, <<>> >> >>
    /\ table_result = <<"a", " | ">>

====
